---------------------------- MODULE Spec2Model ----------------------------
(***************************************************************************)
(* The chat page of devashishj1/union: the Home component with its React   *)
(* state (message, conversations, assistants, selectedAssistant, loading), *)
(* the startup load of the assistant list (fetchAssistants), the submit    *)
(* handler (sendMessage) with its continuation after the backend call, and *)
(* the interpretation of the reply string (JSON.parse plus the optional    *)
(* chaining and the || placeholders of the rendered analysis).             *)
(*                                                                         *)
(* A JavaScript string is modelled as the sequence of its lexemes: words,  *)
(* whitespace, JSON punctuation, number and literal tokens, and quoted     *)
(* strings (which carry the lexemes between their quotes).  trim() and     *)
(* JSON.parse work on these sequences.                                     *)
(***************************************************************************)
EXTENDS Integers, Sequences, FiniteSets, TLC

(***************************************************************************)
(* Bounds of the model.                                                    *)
(***************************************************************************)
\* A submit is offered only while the conversation holds fewer turns.
MaxTurns == 3

(***************************************************************************)
(* JavaScript values.                                                      *)
(***************************************************************************)
Undefined == [t |-> "undefined"]
Null      == [t |-> "null"]
Bool(b)   == [t |-> "bool", b |-> b]
Num(n)    == [t |-> "num", n |-> n]
Str(s)    == [t |-> "str", s |-> s]
Arr(a)    == [t |-> "arr", a |-> a]
Obj(o)    == [t |-> "obj", o |-> o]

\* The object with no property.
EmptyObj == Obj([k \in {} |-> Undefined])

\* o with property key set to v (a later duplicate key wins in JSON.parse).
PutProp(o, key, v) ==
    [k \in (DOMAIN o) \cup {key} |-> IF k = key THEN v ELSE o[k]]

(***************************************************************************)
(* Lexemes.                                                                *)
(***************************************************************************)
Word(s)  == [k |-> "word", s |-> s]
Ws(s)    == [k |-> "ws", s |-> s]
P(s)     == [k |-> "punct", s |-> s]
NumTok(s) == [k |-> "num", s |-> s]
Lit(s)   == [k |-> "lit", s |-> s]
Quoted(q) == [k |-> "quoted", q |-> q]

\* The JavaScript string "s" of one word, and the empty string.
Text(s) == <<Word(s)>>
EmptyString == << >>

IsWs(tok) == tok.k = "ws"
IsP(tok, s) == tok.k = "punct" /\ tok.s = s

(***************************************************************************)
(* String.prototype.trim: the string without its leading and trailing      *)
(* whitespace.                                                             *)
(***************************************************************************)
RECURSIVE TrimStart(_)
TrimStart(s) ==
    IF s = << >> THEN s
    ELSE IF IsWs(Head(s)) THEN TrimStart(Tail(s))
    ELSE s

RECURSIVE TrimEnd(_)
TrimEnd(s) ==
    IF s = << >> THEN s
    ELSE IF IsWs(s[Len(s)]) THEN TrimEnd(SubSeq(s, 1, Len(s) - 1))
    ELSE s

Trim(s) == TrimEnd(TrimStart(s))

(***************************************************************************)
(* JSON.parse, by recursive descent over the lexemes.  A result is         *)
(* [ok, v, next]: whether a value was read, the value, and the position    *)
(* after it.  JSONParse succeeds when one value, with whitespace around    *)
(* it, is the whole string; otherwise JSON.parse throws a SyntaxError.     *)
(***************************************************************************)
ParseFail == [ok |-> FALSE, v |-> Undefined, next |-> 0]
ParseOk(v, next) == [ok |-> TRUE, v |-> v, next |-> next]

RECURSIVE SkipWs(_, _)
SkipWs(toks, i) ==
    IF i <= Len(toks) /\ IsWs(toks[i]) THEN SkipWs(toks, i + 1) ELSE i

LitValue(s) ==
    IF s = "null" THEN Null ELSE Bool(s)

\* The property name a quoted string denotes: names are one lexeme long.
KeyName(q) == IF q = << >> THEN "" ELSE q[1].s

RECURSIVE ParseValue(_, _), ParseMembers(_, _, _), ParseElements(_, _, _)

\* A value starting at or after position i.
ParseValue(toks, i) ==
    LET j == SkipWs(toks, i) IN
    IF j > Len(toks) THEN ParseFail
    ELSE LET tok == toks[j] IN
         IF tok.k = "quoted" THEN ParseOk(Str(tok.q), j + 1)
         ELSE IF tok.k = "num" THEN ParseOk(Num(tok.s), j + 1)
         ELSE IF tok.k = "lit" THEN ParseOk(LitValue(tok.s), j + 1)
         ELSE IF IsP(tok, "{") THEN
             LET n == SkipWs(toks, j + 1) IN
             IF n <= Len(toks) /\ IsP(toks[n], "}")
             THEN ParseOk(EmptyObj, n + 1)
             ELSE ParseMembers(toks, j + 1, EmptyObj.o)
         ELSE IF IsP(tok, "[") THEN
             LET n == SkipWs(toks, j + 1) IN
             IF n <= Len(toks) /\ IsP(toks[n], "]")
             THEN ParseOk(Arr(<< >>), n + 1)
             ELSE ParseElements(toks, j + 1, << >>)
         ELSE ParseFail

\* The members  "key" : value  of an object from position i, up to its }.
ParseMembers(toks, i, acc) ==
    LET j == SkipWs(toks, i) IN
    IF j > Len(toks) \/ toks[j].k # "quoted" THEN ParseFail
    ELSE LET key == KeyName(toks[j].q)
             c   == SkipWs(toks, j + 1) IN
         IF c > Len(toks) \/ ~IsP(toks[c], ":") THEN ParseFail
         ELSE LET r == ParseValue(toks, c + 1) IN
              IF ~r.ok THEN ParseFail
              ELSE LET n   == SkipWs(toks, r.next)
                       obj == PutProp(acc, key, r.v) IN
                   IF n > Len(toks) THEN ParseFail
                   ELSE IF IsP(toks[n], "}") THEN ParseOk(Obj(obj), n + 1)
                   ELSE IF IsP(toks[n], ",") THEN ParseMembers(toks, n + 1, obj)
                   ELSE ParseFail

\* The elements of an array from position i, up to its ].
ParseElements(toks, i, acc) ==
    LET r == ParseValue(toks, i) IN
    IF ~r.ok THEN ParseFail
    ELSE LET n   == SkipWs(toks, r.next)
             arr == Append(acc, r.v) IN
         IF n > Len(toks) THEN ParseFail
         ELSE IF IsP(toks[n], "]") THEN ParseOk(Arr(arr), n + 1)
         ELSE IF IsP(toks[n], ",") THEN ParseElements(toks, n + 1, arr)
         ELSE ParseFail

JSONParse(toks) ==
    LET r == ParseValue(toks, 1) IN
    IF r.ok /\ SkipWs(toks, r.next) = Len(toks) + 1
    THEN [ok |-> TRUE, v |-> r.v]
    ELSE [ok |-> FALSE, v |-> Undefined]


(***************************************************************************)
(* JSON.stringify: the JSON text of a value.  A property whose value is    *)
(* undefined is left out, as JSON.stringify leaves it out.                 *)
(***************************************************************************)
RECURSIVE Stringify(_), StringifyMembers(_, _, _), StringifyElements(_, _)

Stringify(v) ==
    IF v.t = "null" THEN <<Lit("null")>>
    ELSE IF v.t = "bool" THEN <<Lit(v.b)>>
    ELSE IF v.t = "num" THEN <<NumTok(v.n)>>
    ELSE IF v.t = "str" THEN <<Quoted(v.s)>>
    ELSE IF v.t = "arr" THEN <<P("[")>> \o StringifyElements(v.a, 1) \o <<P("]")>>
    ELSE IF v.t = "obj" THEN
        <<P("{")>>
        \o StringifyMembers(v.o, {k \in DOMAIN v.o : v.o[k].t # "undefined"}, TRUE)
        \o <<P("}")>>
    ELSE << >>

StringifyMembers(o, keys, first) ==
    IF keys = {} THEN << >>
    ELSE LET k == CHOOSE x \in keys : TRUE IN
         (IF first THEN << >> ELSE <<P(",")>>)
         \o <<Quoted(Text(k)), P(":")>> \o Stringify(o[k])
         \o StringifyMembers(o, keys \ {k}, FALSE)

StringifyElements(a, i) ==
    IF i > Len(a) THEN << >>
    ELSE (IF i = 1 THEN << >> ELSE <<P(",")>>)
         \o Stringify(a[i]) \o StringifyElements(a, i + 1)

(***************************************************************************)
(* Property access.  v.key throws a TypeError when v is null or undefined  *)
(* (Nullish); v?.key is undefined there.  A primitive or an array has none *)
(* of the properties read here.                                            *)
(***************************************************************************)
Nullish(v) == v.t \in {"null", "undefined"}

Get(v, key) ==
    IF v.t = "obj" /\ key \in DOMAIN v.o THEN v.o[key] ELSE Undefined

OptGet(v, key) == IF Nullish(v) THEN Undefined ELSE Get(v, key)

\* JavaScript truthiness, as the || operator tests it.
Truthy(v) ==
    IF v.t = "str" THEN v.s # EmptyString
    ELSE IF v.t = "num" THEN v.n # "0"
    ELSE IF v.t = "bool" THEN v.b = "true"
    ELSE ~Nullish(v)

\* a ?? b, the nullish coalescing in the place of ||.
OrElseNullish(a, b) == IF Nullish(a) THEN b ELSE a

\* a || b
OrElse(a, b) == IF Truthy(a) THEN a ELSE b

\* String(v), the conversion JSON.parse applies to its argument.
StringOf(v) ==
    IF v.t = "str" THEN v.s
    ELSE IF v.t = "undefined" THEN Text("undefined")
    ELSE IF v.t = "obj" THEN <<P("["), Word("object"), Ws(" "), Word("Object"), P("]")>>
    ELSE Stringify(v)

(***************************************************************************)
(* The interpretation of the reply (sendMessage, the inner try/catch).     *)
(***************************************************************************)
NotProvided == Str(<<Word("Not"), Ws(" "), Word("provided")>>)
NA == Str(Text("N/A"))

\* <p>{content}</p>
PlainText(content) == [kind |-> "PlainText", text |-> content]

\* The rendered analysis: the final answer and the three details.
StructuredAnalysis(fa, ra, da, ps) ==
    [kind |-> "StructuredAnalysis", finalAnswer |-> fa, riskAssessment |-> ra,
     documentationAndApprovals |-> da, procurementStrategy |-> ps]

\* parsed.analysis?.analysis?.<field>, for a parsed that is not nullish.
Detail(parsed, field) == OptGet(OptGet(Get(parsed, "analysis"), "analysis"), field)

\* An interpretation that falls back to the text whenever the parsed value
\* holds no analysis object.
InterpretSniffing(content) ==
    LET r == JSONParse(StringOf(content)) IN
    IF ~r.ok \/ Get(r.v, "analysis").t # "obj" THEN PlainText(content)
    ELSE StructuredAnalysis(
            OrElse(Get(Get(r.v, "analysis"), "final_answer"), NotProvided),
            OrElse(Detail(r.v, "risk_assessment"), NA),
            OrElse(Detail(r.v, "documentation_and_approvals"), NA),
            OrElse(Detail(r.v, "procurement_strategy"), NA))

Interpret(content) ==
    LET r == JSONParse(StringOf(content)) IN
    IF ~r.ok THEN PlainText(content)
    ELSE LET parsed == r.v IN
         \* parsed.analysis, without ?., throws on null: the catch shows the text
         IF Nullish(parsed) THEN PlainText(content)
         ELSE StructuredAnalysis(
                 OrElse(OptGet(OptGet(parsed, "analysis"), "final_answer"), NotProvided),
                 OrElse(Detail(parsed, "risk_assessment"), NA),
                 OrElse(Detail(parsed, "documentation_and_approvals"), NA),
                 OrElse(Detail(parsed, "procurement_strategy"), NA))

(***************************************************************************)
(* The inputs: what the user types and what the backend answers.           *)
(***************************************************************************)
\* An HTTP response: its status and its body text; fetch resolves with it
\* whatever the status is.
Response(status, body) == [status |-> status, body |-> body]
NoResponse == Response(0, EmptyString)

\* What the user may leave in the message box.
Texts ==
    { EmptyString,
      <<Ws(" ")>>,
      Text("hello"),
      <<Ws(" "), Word("hi"), Ws(" ")>> }

Legal   == Obj([id |-> Str(Text("a1")), name |-> Str(Text("Legal"))])
Finance == Obj([id |-> Str(Text("a2")), name |-> Str(Text("Finance"))])

\* { assistants: list }
Directory(list) == Stringify(Obj([assistants |-> Arr(list)]))

\* The body of an error response: { detail: ... }
ErrorBody == Stringify(Obj([detail |-> Str(Text("Error"))]))

\* A body that is no JSON text (an HTML error page).
HtmlBody == <<Word("<html>"), Ws(" "), Word("Bad"), Ws(" "), Word("Gateway")>>

\* What GET /assistants/ may answer.
DirectoryResponses ==
    { Response(200, Directory(<<Legal>>)),
      Response(200, Directory(<<Legal, Finance>>)),
      Response(200, Directory(<< >>)),
      Response(200, Stringify(EmptyObj)),
      Response(404, ErrorBody),
      Response(200, <<Lit("null")>>),
      Response(502, HtmlBody) }

\* { analysis: { final_answer: fa, analysis: { risk_assessment: ra,
\*   documentation_and_approvals: da, procurement_strategy: ps } } }, a field
\* that is Undefined being left out, and the inner object too when inner is
\* FALSE.
AnalysisDoc(fa, inner, ra, da, ps) ==
    Stringify(Obj([analysis |->
        Obj([final_answer |-> fa,
             analysis |-> IF inner
                          THEN Obj([risk_assessment |-> ra,
                                    documentation_and_approvals |-> da,
                                    procurement_strategy |-> ps])
                          ELSE Undefined])]))

ScenarioDoc ==
    AnalysisDoc(Str(Text("Approve")), TRUE, Str(Text("Low")), Undefined, Undefined)

Prose == <<Word("hi"), Ws(" "), Word("there")>>

\* The reply strings of the chat exchanges.
Replies ==
    { Prose,
      ScenarioDoc,
      Stringify(EmptyObj),
      SubSeq(ScenarioDoc, 1, Len(ScenarioDoc) - 1) }

\* { response: reply }
ChatBody(reply) == Stringify(Obj([response |-> Str(reply)]))

\* What POST /chat/ may answer.
ChatResponses ==
    { Response(200, ChatBody(r)) : r \in Replies }
    \cup { Response(500, ErrorBody),
           Response(502, HtmlBody),
           Response(200, <<P("{"), Quoted(Text("response"))>>),
           Response(200, <<Lit("null")>>) }

\* The values a field of the analysis may have in a reply: left out, the
\* empty string, a text, null.
FieldValues == { Undefined, Str(EmptyString), Str(Text("Low")), Null }

\* Reply strings of every shape: the analysis documents over FieldValues,
\* with and without the inner object; JSON texts that hold no analysis
\* object; and strings that are no JSON text.
AllReplies ==
    { AnalysisDoc(fa, TRUE, ra, da, ps) :
          fa \in FieldValues, ra \in FieldValues,
          da \in FieldValues, ps \in FieldValues }
    \cup { AnalysisDoc(fa, FALSE, Undefined, Undefined, Undefined) :
               fa \in FieldValues }
    \cup { Stringify(v) :
               v \in { Null, Num("42"), Num("0"), Bool("true"), Bool("false"),
                       Str(Text("hi")), Str(EmptyString), Arr(<< >>),
                       Arr(<<Num("1")>>), EmptyObj,
                       Obj([analysis |-> Num("42")]),
                       Obj([analysis |-> Str(Text("none"))]),
                       Obj([analysis |-> Null]),
                       Obj([analysis |-> Arr(<< >>)]),
                       Obj([final_answer |-> Str(Text("Approve"))]),
                       Obj([answer |-> Obj([analysis |-> EmptyObj])]) } }
    \cup { Prose,
           EmptyString,
           <<Ws(" ")>>,
           <<Ws(" "), NumTok("42"), Ws(" ")>>,
           Text("Approve"),
           SubSeq(ScenarioDoc, 1, Len(ScenarioDoc) - 1),
           ScenarioDoc \o <<P("}")>>,
           ScenarioDoc \o <<Ws(" "), Word("thanks")>>,
           <<P("{"), Quoted(Text("analysis")), P(":"), P("{"), P("}"), P(","), P("}")>>,
           <<P("{"), Word("analysis"), P(":"), P("{"), P("}"), P("}")>> }

(***************************************************************************)
(* The state of the Home component.                                        *)
(***************************************************************************)
VARIABLES
    message,            \* useState(''): the text of the message box
    conversations,      \* useState([]): the turns, in order
    assistants,         \* useState([]): the held assistant list
    selectedAssistant,  \* useState(''): the id chosen in the Select
    loading,            \* useState(false)
    directory,          \* "pending" while fetchAssistants awaits, then "done"
    inflight,           \* the chat requests issued and not yet resolved
    event,              \* history: the last event handled and its outcome
    crashed,            \* a render has thrown: the component is gone
    uncaught,           \* an exception left sendMessage
    page                \* the Home component of chat-ui/src/app/page.js, which
                        \* is shown the same events, as a record of its state

vars == <<message, conversations, assistants, selectedAssistant, loading,
          directory, inflight, event, crashed, uncaught, page>>

Event(name, outcome, response, base) ==
    [name |-> name, outcome |-> outcome, response |-> response, base |-> base]

Turn(role, content) == [role |-> role, content |-> content]

\* The state of the page.js component after its mount.
PageInit ==
    [message |-> EmptyString, conversations |-> << >>, assistants |-> Arr(<< >>),
     selectedAssistant |-> EmptyString, loading |-> FALSE, inflight |-> << >>,
     crashed |-> FALSE]

Init ==
    /\ page = PageInit
    /\ message = EmptyString
    /\ conversations = << >>
    /\ assistants = Arr(<< >>)
    /\ selectedAssistant = EmptyString
    /\ loading = FALSE
    /\ directory = "pending"
    /\ inflight = << >>
    /\ event = Event("mount", "", NoResponse, 0)
    /\ crashed = FALSE
    /\ uncaught = FALSE

(***************************************************************************)
(* fetchAssistants.                                                        *)
(***************************************************************************)
\* The held list after the try block ran on a response with this body:
\* response.json() or data.assistants may throw, and the catch only logs.
FetchedAssistants(held, body) ==
    LET r == JSONParse(body) IN
    IF ~r.ok THEN held
    ELSE IF Nullish(r.v) THEN held
    ELSE Get(r.v, "assistants")

\* assistants.map(...) of the render: it throws unless the value is an array.
Renders(list) == list.t = "arr"

DirectoryResolves(resp) ==
    /\ directory = "pending"
    /\ directory' = "done"
    /\ assistants' = FetchedAssistants(assistants, resp.body)
    /\ crashed' = ~Renders(assistants')
    /\ event' = Event("directory", "resolved", resp, 0)
    /\ UNCHANGED <<message, conversations, selectedAssistant, loading,
                   inflight, uncaught>>

\* fetch rejects (a network error): the catch logs it.
DirectoryRejects ==
    /\ directory = "pending"
    /\ directory' = "done"
    /\ event' = Event("directory", "rejected", NoResponse, 0)
    /\ UNCHANGED <<message, conversations, assistants, selectedAssistant,
                   loading, inflight, crashed, uncaught>>

(***************************************************************************)
(* The Select and the message box.                                         *)
(***************************************************************************)
\* disabled={loading || !selectedAssistant}
TextareaDisabled == loading \/ selectedAssistant = EmptyString

\* A button that is disabled only while no assistant is selected.
ButtonDisabledNoLoading == selectedAssistant = EmptyString

ButtonDisabled == loading \/ selectedAssistant = EmptyString

\* A Select whose change of assistant starts a new conversation.
SelectAssistantNewChat(i) ==
    /\ ~crashed
    /\ i \in 1..Len(assistants.a)
    /\ selectedAssistant' = Get(assistants.a[i], "id").s
    /\ conversations' = << >>
    /\ event' = Event("select", "", NoResponse, 0)
    /\ UNCHANGED <<message, assistants, loading, directory,
                   inflight, crashed, uncaught>>

\* A Select whose items carry the name of the assistant as their value.
SelectAssistantByName(i) ==
    /\ ~crashed
    /\ i \in 1..Len(assistants.a)
    /\ selectedAssistant' = Get(assistants.a[i], "name").s
    /\ event' = Event("select", "", NoResponse, 0)
    /\ UNCHANGED <<message, conversations, assistants, loading, directory,
                   inflight, crashed, uncaught>>

\* onValueChange={setSelectedAssistant}, with the value of the i-th item.
SelectAssistant(i) ==
    /\ ~crashed
    /\ i \in 1..Len(assistants.a)
    /\ selectedAssistant' = Get(assistants.a[i], "id").s
    /\ event' = Event("select", "", NoResponse, 0)
    /\ UNCHANGED <<message, conversations, assistants, loading, directory,
                   inflight, crashed, uncaught>>

\* onChange={(e) => setMessage(e.target.value)}
TypeMessage(text) ==
    /\ ~crashed
    /\ ~TextareaDisabled
    /\ message' = text
    /\ event' = Event("type", "", NoResponse, 0)
    /\ UNCHANGED <<conversations, assistants, selectedAssistant, loading,
                   directory, inflight, crashed, uncaught>>

(***************************************************************************)
(* sendMessage, up to its await of fetch.                                  *)
(***************************************************************************)
\* The guard without the trim.
RefusedNoTrim(msg, selected) == msg = EmptyString \/ selected = EmptyString

\* if (!message.trim() || !selectedAssistant) return;
Refused(msg, selected) == Trim(msg) = EmptyString \/ selected = EmptyString

\* A request that carries the trimmed message.
ChatRequestTrimmed(selected, msg, base) ==
    [assistantId |-> selected,
     body |-> Stringify(Obj([user_id |-> Str(Text("default")),
                             message |-> Str(Trim(msg))])),
     base |-> base]

\* The POST /chat/ request: the assistant-id header and the JSON body.  base
\* is the number of turns before the submit, kept for the properties.
ChatRequest(selected, msg, base) ==
    [assistantId |-> selected,
     body |-> Stringify(Obj([user_id |-> Str(Text("default")),
                             message |-> Str(msg)])),
     base |-> base]

\* A submit that leaves the user turn out.
WithUserTurnLeftOut(conv, msg) == conv

\* The turns after setConversations(prev => [...prev, newMessage]).
WithUserTurn(conv, msg) == Append(conv, Turn("user", Str(msg)))

\* The Send button is pressed: a disabled button submits nothing; otherwise
\* the form's onSubmit runs sendMessage.
ClickSend ==
    /\ ~crashed
    /\ IF ButtonDisabled
       THEN /\ event' = Event("submit", "disabled", NoResponse, Len(conversations))
            /\ UNCHANGED <<message, conversations, assistants, selectedAssistant,
                           loading, directory, inflight, crashed, uncaught>>
       ELSE IF Refused(message, selectedAssistant)
       THEN /\ event' = Event("submit", "refused", NoResponse, Len(conversations))
            /\ UNCHANGED <<message, conversations, assistants, selectedAssistant,
                           loading, directory, inflight, crashed, uncaught>>
       ELSE /\ Len(conversations) < MaxTurns
            /\ loading' = TRUE
            /\ conversations' = WithUserTurn(conversations, message)
            /\ inflight' = Append(inflight,
                   ChatRequest(selectedAssistant, message, Len(conversations)))
            /\ event' = Event("submit", "sent", NoResponse, Len(conversations))
            /\ UNCHANGED <<message, assistants, selectedAssistant, directory,
                           crashed, uncaught>>

(***************************************************************************)
(* sendMessage, after its await of fetch.                                  *)
(***************************************************************************)
\* What the try block throws on a response with this body: response.json()
\* a SyntaxError, data.response on null a TypeError.
Thrown(body) ==
    LET r == JSONParse(body) IN
    IF ~r.ok THEN "SyntaxError"
    ELSE IF Nullish(r.v) THEN "TypeError"
    ELSE "none"

\* A try block that appends the reply only when the reply string is JSON.
WithReplyParsedOnly(conv, body) ==
    IF Thrown(body) # "none" THEN conv
    ELSE IF ~JSONParse(StringOf(Get(JSONParse(body).v, "response"))).ok THEN conv
    ELSE Append(conv,
             Turn("assistant", Interpret(Get(JSONParse(body).v, "response"))))

\* A try block that puts the reply in the place of the last turn.
WithReplyInPlace(conv, body) ==
    IF Thrown(body) # "none" THEN conv
    ELSE Append(SubSeq(conv, 1, Len(conv) - 1),
             Turn("assistant", Interpret(Get(JSONParse(body).v, "response"))))

\* The turns after the try block ran on a response with this body.
WithReply(conv, body) ==
    IF Thrown(body) # "none" THEN conv
    ELSE Append(conv,
             Turn("assistant", Interpret(Get(JSONParse(body).v, "response"))))

\* The reset at the end of the try block, with no catch and no finally.
AfterTryNoFinally(thrown, msg) ==
    IF thrown = "none"
    THEN [loading |-> FALSE, message |-> EmptyString, uncaught |-> FALSE]
    ELSE [loading |-> TRUE, message |-> msg, uncaught |-> TRUE]

\* The catch and the finally, after the try block threw `thrown` ("none":
\* nothing): catch (error) logs whatever was thrown, and finally runs
\* setLoading(false) and setMessage('') either way.
AfterTry(thrown, msg) ==
    [loading |-> FALSE, message |-> EmptyString, uncaught |-> FALSE]

Without(seq, i) == SubSeq(seq, 1, i - 1) \o SubSeq(seq, i + 1, Len(seq))

\* fetch of the i-th outstanding request resolves with resp.
ExchangeResolves(i, resp) ==
    /\ i \in 1..Len(inflight)
    /\ conversations' = WithReply(conversations, resp.body)
    /\ LET after == AfterTry(Thrown(resp.body), message) IN
           /\ loading' = after.loading
           /\ message' = after.message
           /\ uncaught' = (uncaught \/ after.uncaught)
    /\ inflight' = Without(inflight, i)
    /\ event' = Event("exchange", "resolved", resp, inflight[i].base)
    /\ UNCHANGED <<assistants, selectedAssistant, directory, crashed>>

\* fetch of the i-th outstanding request rejects (a network error).
ExchangeRejects(i) ==
    /\ i \in 1..Len(inflight)
    /\ LET after == AfterTry("NetworkError", message) IN
           /\ loading' = after.loading
           /\ message' = after.message
           /\ uncaught' = (uncaught \/ after.uncaught)
    /\ inflight' = Without(inflight, i)
    /\ event' = Event("exchange", "rejected", NoResponse, inflight[i].base)
    /\ UNCHANGED <<conversations, assistants, selectedAssistant, directory, crashed>>

(***************************************************************************)
(* The component of chat-ui/src/app/page.js.  Each operator gives the      *)
(* state of that component after one event, from its state p before; an    *)
(* event its page cannot take (a disabled box or button, a missing item)   *)
(* leaves p as it is.                                                      *)
(***************************************************************************)
\* fetchAssistants, on a response with this body, and the render after it.
PageLoaded(p, body) ==
    LET r    == JSONParse(body)
        held == IF ~r.ok THEN p.assistants
                ELSE IF Nullish(r.v) THEN p.assistants
                ELSE Get(r.v, "assistants") IN
    [p EXCEPT !.assistants = held, !.crashed = held.t # "arr"]

\* disabled={loading || !selectedAssistant}, of the Textarea and the Button.
PageDisabled(p) == p.loading \/ p.selectedAssistant = EmptyString

\* onValueChange={setSelectedAssistant}, with the value of the i-th item.
PageSelected(p, i) ==
    IF p.crashed \/ i \notin 1..Len(p.assistants.a) THEN p
    ELSE [p EXCEPT !.selectedAssistant = Get(p.assistants.a[i], "id").s]

\* onChange={(e) => setMessage(e.target.value)}
PageTyped(p, text) ==
    IF p.crashed \/ PageDisabled(p) THEN p
    ELSE [p EXCEPT !.message = text]

\* The Send button is pressed: sendMessage, up to its await of fetch.  No
\* submit is followed past MaxTurns turns.
PageSubmitted(p) ==
    IF p.crashed \/ PageDisabled(p) THEN p
    ELSE IF Trim(p.message) = EmptyString \/ p.selectedAssistant = EmptyString THEN p
    ELSE IF Len(p.conversations) >= MaxTurns THEN p
    ELSE [p EXCEPT
            !.loading = TRUE,
            !.conversations = Append(@, Turn("user", Str(p.message))),
            !.inflight = Append(@,
                [assistantId |-> p.selectedAssistant,
                 body |-> Stringify(Obj([user_id |-> Str(Text("default")),
                                         message |-> Str(p.message)])),
                 base |-> Len(p.conversations)])]

\* A continuation whose finally leaves the message box as it is.
PageResolvedKeepsMessage(p, i, resp) ==
    IF i \notin 1..Len(p.inflight) THEN p
    ELSE LET r == JSONParse(resp.body) IN
         [p EXCEPT
            !.conversations =
                IF ~r.ok \/ Nullish(r.v) THEN @
                ELSE Append(@, Turn("assistant", Get(r.v, "response"))),
            !.loading = FALSE,
            !.inflight = Without(@, i)]

\* sendMessage after its await of fetch, which resolved with resp for the
\* i-th outstanding request: the raw data.response is appended, unless
\* response.json() or data.response throws; finally resets the page.
PageResolved(p, i, resp) ==
    IF i \notin 1..Len(p.inflight) THEN p
    ELSE LET r == JSONParse(resp.body) IN
         [p EXCEPT
            !.conversations =
                IF ~r.ok \/ Nullish(r.v) THEN @
                ELSE Append(@, Turn("assistant", Get(r.v, "response"))),
            !.loading = FALSE,
            !.message = EmptyString,
            !.inflight = Without(@, i)]

\* sendMessage after its await of fetch, which rejected: catch and finally.
PageRejected(p, i) ==
    IF i \notin 1..Len(p.inflight) THEN p
    ELSE [p EXCEPT
            !.loading = FALSE,
            !.message = EmptyString,
            !.inflight = Without(@, i)]

(***************************************************************************)
(* The specification: every event is handled by the component modelled in  *)
(* the variables above and shown to the page.js component as well.         *)
(***************************************************************************)
Next ==
    \/ \E resp \in DirectoryResponses :
           DirectoryResolves(resp) /\ page' = PageLoaded(page, resp.body)
    \/ DirectoryRejects /\ page' = page
    \/ \E i \in 1..2 : SelectAssistant(i) /\ page' = PageSelected(page, i)
    \/ \E text \in Texts : TypeMessage(text) /\ page' = PageTyped(page, text)
    \/ ClickSend /\ page' = PageSubmitted(page)
    \/ \E i \in 1..2, resp \in ChatResponses :
           ExchangeResolves(i, resp) /\ page' = PageResolved(page, i, resp)
    \/ \E i \in 1..2 : ExchangeRejects(i) /\ page' = PageRejected(page, i)

Spec == Init /\ [][Next]_vars

\* The backend call of an outstanding exchange returns or fails.
ExchangeSettles ==
    \E i \in 1..2 :
        \/ \E resp \in ChatResponses :
               ExchangeResolves(i, resp) /\ page' = PageResolved(page, i, resp)
        \/ ExchangeRejects(i) /\ page' = PageRejected(page, i)

\* The page with a backend whose calls all end: fetch settles every request.
FairSpec == Spec /\ WF_vars(ExchangeSettles)

(***************************************************************************)
(* The interpretation of the reply on its own: from the state in which the *)
(* first exchange is outstanding (the list loaded, "a1" selected, "hello"  *)
(* submitted), the backend answers with a reply string of any shape.       *)
(***************************************************************************)
InitInterp ==
    /\ page = PageSubmitted(PageTyped(PageSelected(
                  PageLoaded(PageInit, Directory(<<Legal>>)), 1), Text("hello")))
    /\ message = Text("hello")
    /\ conversations = WithUserTurn(<< >>, Text("hello"))
    /\ assistants = Arr(<<Legal>>)
    /\ selectedAssistant = Text("a1")
    /\ loading = TRUE
    /\ directory = "done"
    /\ inflight = <<ChatRequest(Text("a1"), Text("hello"), 0)>>
    /\ event = Event("submit", "sent", NoResponse, 0)
    /\ crashed = FALSE
    /\ uncaught = FALSE

NextInterp ==
    \E r \in AllReplies :
        /\ ExchangeResolves(1, Response(200, ChatBody(r)))
        /\ page' = PageResolved(page, 1, Response(200, ChatBody(r)))

SpecInterp == InitInterp /\ [][NextInterp]_vars

(***************************************************************************)
(* Helpers of the properties.                                              *)
(***************************************************************************)
\* The last event was the end of a chat exchange.
ExchangeEnded == event.name = "exchange"

\* The exchange that just ended failed: a network error, a response body that
\* is no JSON text, or a response with a non-success status.
ExchangeFailed ==
    /\ ExchangeEnded
    /\ \/ event.outcome = "rejected"
       \/ ~JSONParse(event.response.body).ok
       \/ event.response.status \notin 200..299

\* The state the submit handler may change.
session == <<message, conversations, assistants, selectedAssistant, loading,
             directory, inflight>>

(***************************************************************************)
(* C1.  While loading is true, a further submit changes nothing: no turn   *)
(* is appended, no request is issued, and no field of the session changes, *)
(* whatever the message text and the selection are.                        *)
(***************************************************************************)
C1_SubmitWhileSendingIsNoOp ==
    [][(loading /\ event'.name = "submit") => UNCHANGED session]_vars

\* A submit was tried while an exchange was outstanding, with a selection
\* other than the one the outstanding request carries.
C1_Witness ==
    /\ loading
    /\ event.name = "submit"
    /\ event.outcome = "disabled"
    /\ Len(inflight) = 1
    /\ selectedAssistant # inflight[1].assistantId

(***************************************************************************)
(* C2.  After every failed exchange (network error, unparsable body,       *)
(* non-success status) the conversation holds exactly one turn more than   *)
(* before the submit: the user turn, and no assistant turn.                *)
(***************************************************************************)
C2_FailedExchangeAddsOnlyUserTurn ==
    ExchangeFailed =>
        /\ Len(conversations) = event.base + 1
        /\ conversations[Len(conversations)].role = "user"

(***************************************************************************)
(* The reply string of the exchange that just ended, and what is shown.    *)
(***************************************************************************)
\* The exchange that just ended delivered { response: <a string> }.
Replied ==
    /\ ExchangeEnded
    /\ event.outcome = "resolved"
    /\ JSONParse(event.response.body).ok
    /\ Get(JSONParse(event.response.body).v, "response").t = "str"

\* data.response of that exchange.
Reply == Get(JSONParse(event.response.body).v, "response")

\* The content of the last turn.
Shown == conversations[Len(conversations)].content

\* The reply parses and holds an object under "analysis".
ExposesAnalysis(reply) ==
    LET p == JSONParse(reply.s) IN p.ok /\ Get(p.v, "analysis").t = "obj"

\* The fields of the reply's document, Undefined where missing.
ReplyAnalysis == Get(JSONParse(Reply.s).v, "analysis")
ReplyField(field) ==
    IF field = "final_answer" THEN Get(ReplyAnalysis, field)
    ELSE Get(Get(ReplyAnalysis, "analysis"), field)

Fields ==
    { "final_answer", "risk_assessment", "documentation_and_approvals",
      "procurement_strategy" }

ShownField(field) ==
    IF field = "final_answer" THEN Shown.finalAnswer
    ELSE IF field = "risk_assessment" THEN Shown.riskAssessment
    ELSE IF field = "documentation_and_approvals" THEN Shown.documentationAndApprovals
    ELSE Shown.procurementStrategy

Placeholder(field) == IF field = "final_answer" THEN NotProvided ELSE NA

(***************************************************************************)
(* C3, as claimed.  A reply that does not parse, or parses without an      *)
(* analysis object, is shown as PlainText of the original string, and a    *)
(* StructuredAnalysis is shown only for a reply that parses and holds the  *)
(* analysis object.                                                        *)
(***************************************************************************)
C3_PlainTextUnlessAnalysisObject ==
    Replied =>
        /\ ~ExposesAnalysis(Reply) => Shown = PlainText(Reply)
        /\ Shown.kind = "StructuredAnalysis" => ExposesAnalysis(Reply)

(***************************************************************************)
(* C3, amended.  A reply that does not parse as JSON, or that parses to    *)
(* null, is shown as PlainText of the original string; every other reply   *)
(* that parses is shown as a StructuredAnalysis, whether or not it holds   *)
(* an analysis object.                                                     *)
(***************************************************************************)
C3_PlainTextIffNotJsonOrNull ==
    Replied =>
        IF ~JSONParse(Reply.s).ok \/ JSONParse(Reply.s).v = Null
        THEN Shown = PlainText(Reply)
        ELSE Shown.kind = "StructuredAnalysis"

\* The JSON text null came back and is shown as the text it is.
C3_Witness ==
    /\ Replied
    /\ Reply = Str(<<Lit("null")>>)
    /\ Shown = PlainText(Str(<<Lit("null")>>))

(***************************************************************************)
(* C4, as claimed.  For a reply that parses and holds the analysis object, *)
(* each field that is present as a string, the empty string included, is   *)
(* shown verbatim, each missing field is shown as its placeholder, and a   *)
(* placeholder is shown only for a missing field.                          *)
(***************************************************************************)
C4_FieldsVerbatimOrAbsent ==
    (Replied /\ ExposesAnalysis(Reply)) =>
        \A f \in Fields :
            /\ ReplyField(f).t = "str" => ShownField(f) = ReplyField(f)
            /\ ReplyField(f).t = "undefined" => ShownField(f) = Placeholder(f)
            /\ ShownField(f) = Placeholder(f) => ReplyField(f).t = "undefined"

(***************************************************************************)
(* C4, amended.  For a reply that parses and holds the analysis object,    *)
(* each field that is present as a non-empty string is shown verbatim, and *)
(* each field that is missing, null or the empty string is shown as its    *)
(* placeholder; a placeholder replaces no other field.                     *)
(***************************************************************************)
C4_NonEmptyFieldsVerbatim ==
    (Replied /\ ExposesAnalysis(Reply)) =>
        /\ Shown.kind = "StructuredAnalysis"
        /\ \A f \in Fields :
               IF ReplyField(f).t = "str" /\ ReplyField(f).s # EmptyString
               THEN ShownField(f) = ReplyField(f)
               ELSE ShownField(f) = Placeholder(f)

\* An empty final answer came back beside a risk assessment: the first is
\* shown as "Not provided", the second verbatim.
C4_Witness ==
    /\ Replied
    /\ Reply = Str(AnalysisDoc(Str(EmptyString), TRUE, Str(Text("Low")),
                               Undefined, Undefined))
    /\ Shown.finalAnswer = NotProvided
    /\ Shown.riskAssessment = Str(Text("Low"))
    /\ Shown.documentationAndApprovals = NA

(***************************************************************************)
(* C5.  A submit with a message that is not blank and with an assistant    *)
(* selected appends exactly one user turn, holding the message as typed,   *)
(* in the step that enters Sending and issues the request; and while the   *)
(* exchange is outstanding the conversation ends with that user turn.      *)
(***************************************************************************)
C5_UserTurnAppendedOnSubmit ==
    /\ [](loading =>
            /\ Len(inflight) = 1
            /\ Len(conversations) = inflight[1].base + 1
            /\ conversations[Len(conversations)] =
                   Turn("user", Get(JSONParse(inflight[1].body).v, "message")))
    /\ [][(/\ event'.name = "submit"
           /\ ~loading
           /\ Trim(message) # EmptyString
           /\ selectedAssistant # EmptyString)
          => /\ conversations' = Append(conversations, Turn("user", Str(message)))
             /\ loading'
             /\ Len(inflight') = 1]_vars

\* A second exchange is outstanding: the conversation of three turns ends
\* with the user turn just submitted, spaces included.
C5_Witness ==
    /\ loading
    /\ Len(conversations) = 3
    /\ conversations[3] = Turn("user", Str(<<Ws(" "), Word("hi"), Ws(" ")>>))
    /\ conversations[2].role = "assistant"

(***************************************************************************)
(* C6.  After every exchange that delivered a reply string, of whatever    *)
(* shape, the conversation holds exactly two turns more than before the    *)
(* submit: the user turn and, directly after it, one assistant turn.       *)
(***************************************************************************)
C6_ReplyAddsOneAssistantTurn ==
    Replied =>
        /\ Len(conversations) = event.base + 2
        /\ conversations[event.base + 1].role = "user"
        /\ conversations[event.base + 2].role = "assistant"

\* A second exchange ended with a reply that is no JSON text.
C6_Witness ==
    /\ Replied
    /\ ~JSONParse(Reply.s).ok
    /\ event.base = 2
    /\ Len(conversations) = 4
    /\ Shown = PlainText(Reply)

(***************************************************************************)
(* C7.  A submit with a blank message, or with no assistant selected,      *)
(* changes nothing: not the conversation, the loading flag, the message    *)
(* box, the assistant list or the selection, and no request is issued.     *)
(***************************************************************************)
C7_RefusedSubmitChangesNothing ==
    [][(/\ event'.name = "submit"
        /\ (Trim(message) = EmptyString \/ selectedAssistant = EmptyString))
       => UNCHANGED session]_vars

\* With an assistant selected, a message of one space was submitted.
C7_Witness ==
    /\ event.name = "submit"
    /\ event.outcome = "refused"
    /\ message = <<Ws(" ")>>
    /\ selectedAssistant # EmptyString
    /\ ~loading
    /\ inflight = << >>

(***************************************************************************)
(* C8.  In every conversation each assistant turn stands directly after a  *)
(* user turn: no conversation starts with an assistant turn and no two     *)
(* assistant turns are adjacent, so a user turn is followed by at most one *)
(* assistant turn.                                                         *)
(***************************************************************************)
C8_AssistantTurnFollowsUserTurn ==
    \A i \in 1..Len(conversations) :
        conversations[i].role = "assistant" =>
            /\ i > 1
            /\ conversations[i - 1].role = "user"

\* Two exchanges were answered, one after the other.
C8_Witness ==
    /\ Len(conversations) = 4
    /\ conversations[1].role = "user"
    /\ conversations[2].role = "assistant"
    /\ conversations[3].role = "user"
    /\ conversations[4].role = "assistant"
    /\ ~loading

(***************************************************************************)
(* C9.  Right after an exchange ended, by a reply or by any failure,       *)
(* loading is false and the message box is empty, and no exception has     *)
(* left sendMessage.                                                       *)
(***************************************************************************)
C9_IdleAfterExchange ==
    ExchangeEnded =>
        /\ loading = FALSE
        /\ message = EmptyString
        /\ uncaught = FALSE

\* An exchange ended on a body that is no JSON text.
C9_Witness ==
    /\ ExchangeFailed
    /\ event.response = Response(502, HtmlBody)
    /\ loading = FALSE
    /\ message = EmptyString
    /\ inflight = << >>

(***************************************************************************)
(* C10.  The held assistant list is always a sequence, and right after the *)
(* load ended it is the delivered list when a list was delivered and the   *)
(* empty sequence otherwise (network error, unparsable body, a body        *)
(* without a list of assistants).                                          *)
(***************************************************************************)
C10_HeldListIsDeliveredOrEmpty ==
    /\ assistants.t = "arr"
    /\ event.name = "directory" =>
           LET r == JSONParse(event.response.body) IN
           IF /\ event.outcome = "resolved"
              /\ r.ok
              /\ Get(r.v, "assistants").t = "arr"
           THEN assistants = Get(r.v, "assistants")
           ELSE assistants = Arr(<< >>)

(***************************************************************************)
(* C11.  The conversation is append-only: in every step, whatever the      *)
(* event, the turns before the step are a prefix of the turns after it.    *)
(***************************************************************************)
IsPrefix(a, b) == Len(a) <= Len(b) /\ SubSeq(b, 1, Len(a)) = a

C11_ConversationAppendOnly ==
    [][IsPrefix(conversations, conversations')]_vars

\* A reply was appended to a conversation that already held three turns.
C11_Witness ==
    /\ Len(conversations) = 4
    /\ event.name = "exchange"
    /\ event.base = 2
    /\ conversations[4].role = "assistant"

(***************************************************************************)
(* C12.  At most one chat exchange is outstanding, and loading is true     *)
(* exactly when one is.                                                    *)
(***************************************************************************)
C12_LoadingIffOneExchange ==
    /\ Len(inflight) <= 1
    /\ loading <=> Len(inflight) = 1

\* An exchange is outstanding while the user changes the selection.
C12_Witness ==
    /\ loading
    /\ Len(inflight) = 1
    /\ event.name = "select"

(***************************************************************************)
(* C13.  A request is issued only by an accepted submit, one per submit    *)
(* and none when an exchange ends (no retry); it carries the selection of  *)
(* that moment, the user id "default", and the message as it stood in the  *)
(* message box, untrimmed, which is also the content of the user turn      *)
(* appended by that submit.                                                *)
(***************************************************************************)
C13_OneRequestPerSubmit ==
    [][/\ Len(inflight') > Len(inflight) =>
              /\ event'.name = "submit"
              /\ event'.outcome = "sent"
              /\ Len(inflight') = Len(inflight) + 1
       /\ (event'.name = "submit" /\ event'.outcome = "sent") =>
              LET req  == inflight'[Len(inflight')]
                  sent == JSONParse(req.body) IN
              /\ Len(inflight') = Len(inflight) + 1
              /\ req.assistantId = selectedAssistant
              /\ sent.ok
              /\ sent.v = Obj([user_id |-> Str(Text("default")),
                               message |-> Str(message)])
              /\ conversations'[Len(conversations')] = Turn("user", Str(message))]_vars

\* The request of a message with spaces around it, sent to the second
\* assistant, is outstanding.
C13_Witness ==
    /\ Len(inflight) = 1
    /\ inflight[1].assistantId = Text("a2")
    /\ Get(JSONParse(inflight[1].body).v, "message")
           = Str(<<Ws(" "), Word("hi"), Ws(" ")>>)
    /\ event.name = "submit"
    /\ event.outcome = "sent"

(***************************************************************************)
(* C14.  With a backend whose calls all end, loading = TRUE leads to       *)
(* loading = FALSE; and loading turns false only in the step that ends an  *)
(* exchange, by a response or by a failure: nothing cancels one and        *)
(* nothing times out.                                                      *)
(***************************************************************************)
C14_SendingLeadsToIdle ==
    /\ loading ~> ~loading
    /\ [][(loading /\ ~loading') => event'.name = "exchange"]_vars

\* A network error ended the second exchange and the page is idle again.
C14_Witness ==
    /\ ~loading
    /\ event.name = "exchange"
    /\ event.outcome = "rejected"
    /\ event.base = 1
    /\ inflight = << >>

(***************************************************************************)
(* C15.  A change of the selection while an exchange is outstanding leaves *)
(* the conversation, loading, the message box and the outstanding request  *)
(* (with the id chosen at submit) as they are; and when the reply then     *)
(* arrives, with the selection no longer that of the request, its          *)
(* assistant turn is appended all the same.                                *)
(***************************************************************************)
C15_SelectionChangeLeavesExchange ==
    [][/\ (loading /\ event'.name = "select") =>
              UNCHANGED <<conversations, loading, message, inflight>>
       /\ (/\ Len(inflight) = 1
           /\ selectedAssistant # inflight[1].assistantId
           /\ event'.name = "exchange"
           /\ event'.outcome = "resolved"
           /\ JSONParse(event'.response.body).ok
           /\ Get(JSONParse(event'.response.body).v, "response").t = "str") =>
              /\ Len(conversations') = Len(conversations) + 1
              /\ SubSeq(conversations', 1, Len(conversations)) = conversations
              /\ conversations'[Len(conversations')].role = "assistant"
              /\ event'.base = inflight[1].base]_vars

\* The selection was just changed to "a2" while the request sent to "a1"
\* is outstanding.
C15_Witness ==
    /\ loading
    /\ event.name = "select"
    /\ Len(inflight) = 1
    /\ inflight[1].assistantId = Text("a1")
    /\ selectedAssistant = Text("a2")
    /\ Len(conversations) = inflight[1].base + 1

(***************************************************************************)
(* C16.  The selection is empty or the id of an assistant of the held      *)
(* list, and so is the id every outstanding request carries.               *)
(***************************************************************************)
HeldIds ==
    IF assistants.t = "arr"
    THEN { Get(assistants.a[i], "id").s : i \in 1..Len(assistants.a) }
    ELSE {}

C16_SelectionIsHeldId ==
    /\ selectedAssistant = EmptyString \/ selectedAssistant \in HeldIds
    /\ \A i \in 1..Len(inflight) : inflight[i].assistantId \in HeldIds

\* The second assistant of the list is selected and a request to it is
\* outstanding.
C16_Witness ==
    /\ selectedAssistant = Text("a2")
    /\ selectedAssistant \in HeldIds
    /\ Len(inflight) = 1
    /\ inflight[1].assistantId = Text("a2")
    /\ event.name = "submit"

(***************************************************************************)
(* C17.  The two components, shown the same events, agree in every state   *)
(* on loading, on the message box, on the selection, on the roles of the   *)
(* turns and on the contents of the user turns; they differ only in the    *)
(* content of an assistant turn, where one holds the interpretation of the *)
(* raw reply the other holds.                                              *)
(***************************************************************************)
C17_VariantsAgree ==
    /\ page.loading = loading
    /\ page.message = message
    /\ page.selectedAssistant = selectedAssistant
    /\ Len(page.conversations) = Len(conversations)
    /\ \A i \in 1..Len(conversations) :
           /\ page.conversations[i].role = conversations[i].role
           /\ IF conversations[i].role = "user"
              THEN page.conversations[i].content = conversations[i].content
              ELSE conversations[i].content = Interpret(page.conversations[i].content)

\* Both answered one exchange: one holds the analysis, the other the raw
\* reply it was read from.
C17_Witness ==
    /\ Replied
    /\ Len(conversations) = 2
    /\ Len(page.conversations) = 2
    /\ Shown.kind = "StructuredAnalysis"
    /\ page.conversations[2].content = Str(ScenarioDoc)
    /\ ~page.loading

=============================================================================
